---- MODULE Spec2Model ----
(***************************************************************************)
(* The listener and lifecycle control plane of the MirageNavi relay node   *)
(* (cmd/derper main): the epoch loop of main, the certificate setup of an  *)
(* epoch, the three tasks of an epoch (TLS serve, signal wait, renewal     *)
(* ticker), operating-system signals and the passing of time.              *)
(*                                                                         *)
(* Time is counted in periods of the renewal ticker (6 hours).             *)
(***************************************************************************)
EXTENDS Integers, Sequences, FiniteSets, TLC

\* ------------------------------------------------------------------ bounds
MaxTime == 2            \* ticker periods the clock may advance
MaxConns == 1           \* connections open at the same time
MaxBurst == 2           \* largest -accept-connection-burst considered
MaxAttempts == 4        \* connection attempts made on one listener
MaxReads == 3           \* returns of ReadFromUDP in one run of the responder
MaxHandshakes == 3      \* TLS handshakes on the server of one epoch
MaxSeconds == 22        \* seconds a wait loop of the service installer is followed

\* ------------------------------------------------------- program constants
\* time.Hour*24*7 (the renewal threshold) in units of time.Hour*6 (the ticker)
RenewThreshold == 28
\* time.Sleep(time.Second) after a read error, in seconds
ReadBackoff == 1

\* time.NewTicker(time.Second) and time.After(time.Second * 20) of
\* isServiceInstaller's first wait loop, in seconds
InstallTick == 1
InstallTimeout == 20
\* time.Tick(time.Second) and time.After(time.Second * 20) of
\* isServiceUninstaller's wait loop, in seconds
UninstallTick == 1
UninstallTimeout == 20

\* signal.Notify(sigc, SIGINT, SIGTERM, SIGQUIT)
NotifiedSignals == {"SIGINT", "SIGTERM", "SIGQUIT"}
\* the termination signal the operator sends in the runs considered: sigFunc
\* handles the three registered signals in one default case
SentSignals == {"SIGTERM"}

\* the cases of switch *dnsProvider
KnownProviders == {"cloudflare", "aliyun", "qcloud", "namesilo"}
\* the -dns-provider values considered: none, the first and the last case of
\* the switch, and a name the switch does not know
ProviderNames == {"", "cloudflare", "namesilo", "route53"}
CertModes == {"letsencrypt", "manual", "none"}
Addrs == {":443", ":8443", "443"}

\* lifetimes (in ticker periods) of the certificate a successful ManageSync
\* leaves in place: under the renewal threshold after one period, or two
IssuedLifetimes == {RenewThreshold, RenewThreshold + 1}

\* net.SplitHostPort(*addr): "443" has no colon and is rejected
SplitHostPortOK(a) == a \in {":443", ":8443", ":3340"}
\* strconv.Atoi(strings.TrimPrefix(*addr, ":"))
AlpnPort(a) == IF a = ":443" THEN 443 ELSE IF a = ":3340" THEN 3340 ELSE 8443

\* the provider the switch on *dnsProvider leaves in `provider`: the switch
\* has no default case, an unknown name leaves the nil interface
ProviderFor(name) == IF name \in KnownProviders THEN name ELSE "nil"

AllFlags ==
    [certMode : CertModes, dnsProvider : ProviderNames, addr : Addrs,
     setIPv4 : {"", "192.0.2.1"}, setIPv6 : {"", "2001:db8::1"},
     managed : BOOLEAN, stun : BOOLEAN, dev : BOOLEAN]

\* The command lines considered: a flag the chosen mode never reads is left
\* at its default; -stun=false, -dev and the managed mode are tried with
\* the other flags at their defaults, -set-ipv6 together with -set-ipv4.
Configs ==
    {f \in AllFlags :
        /\ (f.certMode # "letsencrypt" => f.dnsProvider = "" /\ f.addr = ":443")
        /\ (f.dnsProvider = "" => f.setIPv4 = "" /\ f.setIPv6 = "")
        /\ (f.dnsProvider # "" => f.addr = ":443")
        /\ (~SplitHostPortOK(f.addr) => f.dnsProvider = "")
        /\ (~f.stun => f.certMode = "letsencrypt" /\ f.dnsProvider = "" /\ f.addr = ":443")
        /\ (f.managed => f.certMode = "letsencrypt" /\ f.dnsProvider = "" /\ f.addr = ":443")
        /\ (f.setIPv6 # "" => f.setIPv4 # "")
        /\ (f.dev => /\ f.certMode = "letsencrypt" /\ f.dnsProvider = "" /\ f.addr = ":443"
                     /\ f.stun /\ ~f.managed)}

VARIABLES
    flags,          \* the parsed command line
    pc,             \* position of main in the epoch loop
    epoch,          \* number of completed iterations of the loop of main
    exitStatus,     \* "running", or how the process ended
    err,            \* main's err after magic.ManageSync
    provider,       \* the DNS provider selected in this epoch
    stored,         \* certmagic's file storage: <<>> or <<notAfter>>
    cache,          \* this epoch's certmagic cache: <<>> or <<notAfter>>
    tlsCert,        \* certificate of httpsrv.TLSConfig: <<>> or <<notAfter>>
    certExpires,    \* main's certExpires
    iptRule,        \* the iptables redirect rule is installed
    serve,          \* the serve task of this epoch
    serveErr,       \* the error the serve task returned
    sig,            \* the signal task of this epoch
    tick,           \* the ticker task of this epoch
    tickC,          \* ticks buffered in ticker.C (0 or 1)
    sigc,           \* this epoch's signal channel (capacity 1)
    notified,       \* this epoch's signal.Notify has been called
    everNotified,   \* some epoch's signal.Notify has been called
    inShutdown,     \* httpsrv.Close() has been called on this epoch's server
    lnBound,        \* epochs whose TLS listener is bound
    tracked,        \* open connections the HTTP server tracks
    relay,          \* open connections hijacked for the relay engine
    now,            \* the clock
    runSTUN,        \* the value of *runSTUN
    stun,           \* the serveSTUN goroutine: "none", "starting", "bound"
    cronjobs,       \* epochs whose s.Cronjob has been started and not stopped
    nodeKey,        \* cfg.PrivateKey as last handed to derp.NewServer, or <<>>
    closes,         \* sigFunc's calls of close(shutdownChan) and httpsrv.Close() in this epoch
    hist            \* history of the run, read by the properties only

\* One rateLimitedListener under the accept loop of srv.ServeTLS, looked at on
\* its own.
VARIABLES
    limit,          \* l.lim's rate: "inf" (the default) or "finite"
    burst,          \* l.lim's burst
    tokens,         \* tokens l.lim's bucket holds at the present moment
    numAccepts,     \* l.numAccepts
    numRejects,     \* l.numRejects
    backlog,        \* connections waiting in the underlying listener
    arrived,        \* connection attempts made so far
    attempts,       \* connections the underlying Accept has yielded
    accLoop,        \* the accept loop: "idle", "calling", "handling", "returned"
    accRet,         \* what the last call of Accept returned
    elapsed         \* time has passed since the listener was made

\* One run of serverSTUNListener, looked at on its own.
VARIABLES
    stunLoop,       \* the loop: "idle", "read", "sleeping", "returned"
    cancellable,    \* ctx can be cancelled (context.Background() cannot)
    ctxDone,        \* ctx.Err() != nil
    sockClosed,     \* the owner has closed pc
    reads,          \* returns of pc.ReadFromUDP so far
    slept,          \* seconds spent in time.Sleep
    last,           \* the last return of ReadFromUDP and what the loop did with it
    stunReadError,  \* the counters of the responder
    stunNotSTUN,
    stunWriteError,
    stunSuccess,
    stunIPv4,
    stunIPv6

\* The GetCertificate hook of one epoch's server, looked at on its own.
VARIABLES
    srcCopies,      \* getCert hands out a copy of the certificate it holds
    srcChain,       \* the chain of the certificate object the source holds
    hs              \* the handshakes: position, the certificate got, the chain sent

\* A wait loop of the service installer or uninstaller, looked at on its own.
VARIABLES
    waitKind,       \* "none", "installer" (first loop) or "uninstaller"
    waitPc,         \* "idle", "test", "select", "fatal", "done"
    present,        \* isServiceInstalled() would return true
    sinceTick,      \* seconds since the tick channel in use last gave a tick or was made
    afterAge,       \* seconds since the timeout channel in use was made
    waited          \* seconds since the loop was entered

mainVars == <<pc, epoch, exitStatus>>
certVars == <<err, provider, stored, cache, tlsCert, certExpires, iptRule>>
taskVars == <<serve, serveErr, sig, tick, tickC, sigc, notified, everNotified, inShutdown>>
netVars == <<lnBound, tracked, relay>>
envVars == <<now>>
stunVars == <<runSTUN, stun>>
jobVars == <<cronjobs, nodeKey, closes>>
limVars == <<limit, burst, tokens, numAccepts, numRejects, backlog, arrived, attempts,
             accLoop, accRet, elapsed>>
stunCounters == <<stunReadError, stunNotSTUN, stunWriteError, stunSuccess, stunIPv4, stunIPv6>>
probeVars == <<stunLoop, cancellable, ctxDone, sockClosed, reads, slept, last, stunCounters>>
tlsVars == <<srcCopies, srcChain, hs>>
waitVars == <<waitKind, waitPc, present, sinceTick, afterAge, waited>>
sideVars == <<limVars, probeVars, tlsVars, waitVars>>
progVars == <<flags, mainVars, certVars, taskVars, netVars, envVars, stunVars, jobVars, hist>>
vars == <<progVars, sideVars>>

HistInit ==
    [certStep |-> "pending",    \* the certificate step of this epoch
     termDelivered |-> FALSE,   \* a termination signal arrived in this epoch
     usr2Delivered |-> FALSE,   \* an operator's SIGUSR2 reached this epoch's tasks
     zoneQueried |-> FALSE,     \* findZoneByFQDN was called
     recordsSent |-> FALSE,     \* provider.AppendRecords was called
     syncCalled |-> FALSE,      \* magic.ManageSync was called
     syncFailed |-> FALSE,      \* magic.ManageSync returned an error
     badServe |-> FALSE,        \* a serve task failed while no signal was pending
     normalRestart |-> FALSE]   \* this epoch's restart request met a serving task

\* the limiter variables while no listener is looked at
LimIdle ==
    /\ limit = "inf"
    /\ burst = 0
    /\ tokens = 0
    /\ numAccepts = 0
    /\ numRejects = 0
    /\ backlog = 0
    /\ arrived = 0
    /\ attempts = 0
    /\ accLoop = "idle"
    /\ accRet = "none"
    /\ elapsed = FALSE

\* the defaults of the flags
DefaultFlags ==
    [certMode |-> "letsencrypt", dnsProvider |-> "", addr |-> ":443",
     setIPv4 |-> "", setIPv6 |-> "", managed |-> FALSE, stun |-> TRUE, dev |-> FALSE]

\* shutdownChan := make(chan struct{}); httpsrv := &http.Server{...}: neither
\* has been closed
NoCloses == [shutdownChan |-> 0, httpsrv |-> 0]

\* the process at the entry of main, started with the command line f
MainInit(f) ==
    /\ flags = f
    /\ pc = "head"
    /\ epoch = 0
    /\ exitStatus = "running"
    /\ err = "nil"
    /\ provider = "nil"
    /\ stored = <<>>
    /\ cache = <<>>
    /\ tlsCert = <<>>
    /\ certExpires = 0
    /\ iptRule = FALSE
    /\ serve = "none"
    /\ serveErr = "nil"
    /\ sig = "none"
    /\ tick = "none"
    /\ tickC = 0
    /\ sigc = <<>>
    /\ notified = FALSE
    /\ everNotified = FALSE
    /\ inShutdown = FALSE
    /\ lnBound = {}
    /\ tracked = 0
    /\ relay = 0
    /\ now = 0
    /\ runSTUN = flags.stun
    /\ stun = "none"
    /\ cronjobs = {}
    /\ nodeKey = <<>>
    /\ closes = NoCloses
    /\ hist = HistInit

\* what `last` holds before the first return of ReadFromUDP
NoRead == [kind |-> "none"]

\* the responder variables while no responder is looked at
ProbeIdle ==
    /\ stunLoop = "idle"
    /\ cancellable = FALSE
    /\ ctxDone = FALSE
    /\ sockClosed = FALSE
    /\ reads = 0
    /\ slept = 0
    /\ last = NoRead
    /\ stunReadError = 0
    /\ stunNotSTUN = 0
    /\ stunWriteError = 0
    /\ stunSuccess = 0
    /\ stunIPv4 = 0
    /\ stunIPv6 = 0

\* the chain the certificate source was given: the leaf and its issuer
IssuedChain == <<"leaf", "issuer">>

\* s.MetaCert()
MetaCert == "meta"

Handshakes == 1..MaxHandshakes

\* a handshake that has not called GetCertificate
NoHandshake == [pc |-> "idle", own |-> <<>>, read |-> <<>>, sent |-> <<>>]

\* the hook variables while no hook is looked at
TlsIdle ==
    /\ srcCopies = FALSE
    /\ srcChain = <<>>
    /\ hs = [i \in Handshakes |-> NoHandshake]

\* the wait loop variables while no wait loop is looked at
WaitIdle ==
    /\ waitKind = "none"
    /\ waitPc = "idle"
    /\ present = FALSE
    /\ sinceTick = 0
    /\ afterAge = 0
    /\ waited = 0

Init ==
    /\ LimIdle
    /\ ProbeIdle
    /\ TlsIdle
    /\ WaitIdle
    /\ \E f \in Configs : MainInit(f)


\* ---------------------------------------------------------------- helpers
\* os.Exit, log.Fatal and a panic end the process: every task stops, the
\* memory of the process is gone and the operating system closes every
\* socket. What outlives the process is the certificate storage on disk, the
\* iptables rule and the clock.
Exit(status) ==
    /\ pc' = "exited"
    /\ exitStatus' = status
    /\ err' = "nil"
    /\ provider' = "nil"
    /\ cache' = <<>>
    /\ tlsCert' = <<>>
    /\ certExpires' = 0
    /\ serve' = "none"
    /\ serveErr' = "nil"
    /\ sig' = "none"
    /\ tick' = "none"
    /\ tickC' = 0
    /\ sigc' = <<>>
    /\ notified' = FALSE
    /\ everNotified' = FALSE
    /\ inShutdown' = FALSE
    /\ lnBound' = {}
    /\ tracked' = 0
    /\ relay' = 0
    /\ runSTUN' = FALSE
    /\ stun' = "none"
    /\ cronjobs' = {}
    /\ nodeKey' = <<>>
    /\ closes' = NoCloses

FatalH(status, h) ==
    /\ Exit(status)
    /\ hist' = h
    /\ UNCHANGED <<flags, sideVars, epoch, stored, iptRule, envVars>>

Fatal(status) == FatalH(status, hist)

\* main moves on to position p and nothing else changes
Goto(p) ==
    /\ pc' = p
    /\ UNCHANGED <<flags, sideVars, jobVars, stunVars, epoch, exitStatus, certVars, taskVars, netVars, envVars, hist>>

AlpnRedirect == flags.dnsProvider = "" /\ AlpnPort(flags.addr) # 443

\* ------------------------------------------------- main: setup of an epoch
\* if *dev { *addr = ":3340" }
AddrInMode(f) == IF f.dev THEN ":3340" ELSE f.addr

\* if *dev ...; net.SplitHostPort(*addr)
EpochHead ==
    /\ pc = "head"
    /\ IF SplitHostPortOK(AddrInMode(flags))
       THEN /\ pc' = "loadConfig"
            /\ flags' = [flags EXCEPT !.addr = AddrInMode(flags)]
            /\ UNCHANGED <<sideVars, jobVars, stunVars, epoch, exitStatus, certVars, taskVars,
                           netVars, envVars, hist>>
       ELSE Fatal("exit1")

\* loadConfig(): in dev mode config{PrivateKey: key.NewNode()}, a key made by
\* this call; otherwise the key of the config file, which writeNewConfig
\* creates when it is missing
LoadedKey(f, ep) == IF f.dev THEN <<"NewNode", ep>> ELSE <<"configPath">>

\* cfg := loadConfig(); s := derp.NewServer(cfg.PrivateKey, ...)
LoadConfig ==
    /\ pc = "loadConfig"
    /\ \/ /\ pc' = IF flags.managed THEN "bootstrap" ELSE "mesh"
          /\ nodeKey' = LoadedKey(flags, epoch)
          /\ UNCHANGED <<flags, sideVars, cronjobs, closes, stunVars, epoch, exitStatus, certVars,
                         taskVars, netVars, envVars, hist>>
       \/ Fatal("exit1")

\* s.Cronjob.Start(); defer s.Cronjob.Stop(): a deferred call runs when the
\* surrounding function returns, and main does not return from its loop, so
\* the job of every earlier epoch is still running
CronjobsAfterStart(jobs, ep) == jobs \cup {ep}

\* s.PrepareManaged, s.TryLogin, s.UpdateNaviInfo, s.Cronjob.Start
Bootstrap ==
    /\ pc = "bootstrap"
    /\ \/ /\ pc' = "mesh"
          /\ cronjobs' = CronjobsAfterStart(cronjobs, epoch)
          /\ UNCHANGED <<flags, sideVars, nodeKey, closes, stunVars, epoch, exitStatus, certVars, taskVars, netVars,
                         envVars, hist>>
       \/ Fatal("exit1")

\* the mesh key file and startMesh
Mesh ==
    /\ pc = "mesh"
    /\ \/ Goto("stun")
       \/ Fatal("exit1")

\* (variant: the flag is left as it was)
RunSTUNAfterStartKept(flag) == flag

\* if *runSTUN { ...; *runSTUN = false }
RunSTUNAfterStart(flag) == FALSE

\* if *runSTUN { go serveSTUN(listenHost, *stunPort); *runSTUN = false }
StartSTUN ==
    /\ pc = "stun"
    /\ pc' = "cert"
    /\ runSTUN' = RunSTUNAfterStart(runSTUN)
    /\ stun' = IF runSTUN THEN "starting" ELSE stun
    /\ UNCHANGED <<flags, sideVars, jobVars, epoch, exitStatus, certVars, taskVars, netVars, envVars, hist>>

\* switch *certMode, and inside it the selection of the challenge
CertSwitch ==
    /\ pc = "cert"
    /\ pc' = CASE flags.certMode = "manual" -> "manual"
               [] flags.certMode = "letsencrypt" /\ flags.dnsProvider # "" -> "zone"
               [] flags.certMode = "letsencrypt" /\ AlpnRedirect -> "iptAdd"
               [] flags.certMode = "letsencrypt" -> "manageSync"
               [] OTHER -> "wrap"
    /\ provider' = IF flags.certMode = "letsencrypt" /\ flags.dnsProvider # ""
                   THEN ProviderFor(flags.dnsProvider) ELSE provider
    /\ UNCHANGED <<flags, sideVars, jobVars, stunVars, epoch, exitStatus, err, stored, cache, tlsCert, certExpires,
                   iptRule, taskVars, netVars, envVars, hist>>

\* zone, err := findZoneByFQDN(*hostname, ...)
FindZone ==
    /\ pc = "zone"
    /\ LET h == [hist EXCEPT !.zoneQueried = TRUE] IN
       \/ /\ pc' = "records"
          /\ hist' = h
          /\ UNCHANGED <<flags, sideVars, jobVars, stunVars, epoch, exitStatus, certVars, taskVars, netVars, envVars>>
       \/ FatalH("exit1", h)

\* provider.AppendRecords for *setIPv4 and *setIPv6; a call on the nil
\* interface panics
AppendRecords ==
    /\ pc = "records"
    /\ IF flags.setIPv4 = "" /\ flags.setIPv6 = ""
       THEN Goto("manageSync")
       ELSE IF provider = "nil"
       THEN Fatal("panic")
       ELSE /\ pc' = "manageSync"
            /\ hist' = [hist EXCEPT !.recordsSent = TRUE]
            /\ UNCHANGED <<flags, sideVars, jobVars, stunVars, epoch, exitStatus, certVars, taskVars, netVars, envVars>>

\* iptables -A PREROUTING ... before the issuance call
IptAdd ==
    /\ pc = "iptAdd"
    /\ \/ /\ pc' = "manageSync"
          /\ iptRule' = TRUE
          /\ UNCHANGED <<flags, sideVars, jobVars, stunVars, epoch, exitStatus, err, provider, stored, cache, tlsCert,
                         certExpires, taskVars, netVars, envVars, hist>>
       \/ Fatal("exit1")

\* (variant: the rule is removed only when the issuance call succeeded)
AfterSyncOnSuccess == IF AlpnRedirect /\ err' = "nil" THEN "iptDel" ELSE "certCheck"

\* if *dnsProvider == "" && myACME.AltTLSALPNPort != 443, after ManageSync
AfterSync == IF AlpnRedirect THEN "iptDel" ELSE "certCheck"

\* err = magic.ManageSync(ctx, []string{*hostname})
ManageSync ==
    /\ pc = "manageSync"
    /\ LET h == [hist EXCEPT !.syncCalled = TRUE] IN
       \/ \* the stored certificate is still good: nothing is issued
          /\ stored # <<>>
          /\ stored[1] > now
          /\ cache' = stored
          /\ err' = "nil"
          /\ pc' = AfterSync
          /\ hist' = h
          /\ UNCHANGED <<flags, sideVars, jobVars, stunVars, epoch, exitStatus, provider, stored, tlsCert, certExpires,
                         iptRule, taskVars, netVars, envVars>>
       \/ \* a certificate is issued or renewed
          /\ flags.dnsProvider # "" => provider # "nil"
          /\ \E l \in IssuedLifetimes :
                /\ stored' = <<now + l>>
                /\ cache' = <<now + l>>
          /\ err' = "nil"
          /\ pc' = AfterSync
          /\ hist' = h
          /\ UNCHANGED <<flags, sideVars, jobVars, stunVars, epoch, exitStatus, provider, tlsCert, certExpires,
                         iptRule, taskVars, netVars, envVars>>
       \/ \* the call fails; the cache holds what it loaded from storage
          /\ cache' \in {<<>>, stored}
          /\ err' = "ManageSync"
          /\ pc' = AfterSync
          /\ hist' = [h EXCEPT !.syncFailed = TRUE]
          /\ UNCHANGED <<flags, sideVars, jobVars, stunVars, epoch, exitStatus, provider, stored, tlsCert, certExpires,
                         iptRule, taskVars, netVars, envVars>>
       \/ \* the DNS solver calls the nil provider
          /\ flags.dnsProvider # ""
          /\ provider = "nil"
          /\ FatalH("panic", h)

\* iptables -D PREROUTING ... ; err = cmd.Run() assigns main's err again
IptDel ==
    /\ pc = "iptDel"
    /\ \/ /\ pc' = "certCheck"
          /\ err' = "nil"
          /\ iptRule' = FALSE
          /\ UNCHANGED <<flags, sideVars, jobVars, stunVars, epoch, exitStatus, provider, stored, cache, tlsCert,
                         certExpires, taskVars, netVars, envVars, hist>>
       \/ Fatal("exit1")

\* if err != nil { log.Fatal }; tlsConfig = magic.TLSConfig();
\* certExpires = cache.AllMatchingCertificates(*hostname)[0].Leaf.NotAfter
CertCheck ==
    /\ pc = "certCheck"
    /\ IF err # "nil" THEN Fatal("exit1")
       ELSE IF cache = <<>> THEN Fatal("panic")
       ELSE /\ pc' = "wrap"
            /\ tlsCert' = cache
            /\ certExpires' = cache[1]
            /\ hist' = [hist EXCEPT !.certStep = "done"]
            /\ UNCHANGED <<flags, sideVars, jobVars, stunVars, epoch, exitStatus, err, provider, stored, cache, iptRule,
                           taskVars, netVars, envVars>>

\* the not-after times of the certificate file on disk: any time after the
\* moment it is loaded
ManualNotAfters == (now + 1)..(MaxTime + 1)

\* certProviderByCertMode(*certMode, *certDir, *hostname); certManager.TLSConfig()
ManualLoad ==
    /\ pc = "manual"
    /\ \/ /\ pc' = "wrap"
          /\ \E n \in ManualNotAfters : tlsCert' = <<n>>
          /\ hist' = [hist EXCEPT !.certStep = "done"]
          /\ UNCHANGED <<flags, sideVars, jobVars, stunVars, epoch, exitStatus, err, provider, stored, cache, certExpires,
                         iptRule, taskVars, netVars, envVars>>
       \/ Fatal("exit1")

\* httpsrv.TLSConfig = tlsConfig; getCert := httpsrv.TLSConfig.GetCertificate:
\* a nil tlsConfig panics
Wrap ==
    /\ pc = "wrap"
    /\ IF tlsCert = <<>> THEN Fatal("panic") ELSE Goto("spawnServe")

\* ------------------------------------------------- main: the three tasks
\* (variant: the serve task is started before the certificate switch)
SpawnServeEarly ==
    \/ /\ pc = "cert"
       /\ serve = "none"
       /\ serve' = "starting"
       /\ UNCHANGED <<flags, sideVars, jobVars, stunVars, mainVars, certVars, serveErr, sig, tick, tickC, sigc,
                      notified, everNotified, inShutdown, netVars, envVars, hist>>
    \/ /\ pc = "spawnServe"
       /\ pc' = "spawnSig"
       /\ UNCHANGED <<flags, sideVars, jobVars, stunVars, epoch, exitStatus, certVars, taskVars, netVars, envVars, hist>>

\* errorGroup.Go(func() error { return rateLimitedListenAndServeTLS(httpsrv) })
SpawnServe ==
    /\ pc = "spawnServe"
    /\ pc' = "spawnSig"
    /\ serve' = "starting"
    /\ UNCHANGED <<flags, sideVars, jobVars, stunVars, epoch, exitStatus, certVars, serveErr, sig, tick, tickC, sigc,
                   notified, everNotified, inShutdown, netVars, envVars, hist>>

\* sigc := make(chan os.Signal, 1); signal.Notify(sigc, ...);
\* errorGroup.Go(sigFunc(sigc))
SpawnSig ==
    /\ pc = "spawnSig"
    /\ pc' = "spawnTicker"
    /\ sigc' = <<>>
    /\ notified' = TRUE
    /\ everNotified' = TRUE
    /\ sig' = "waiting"
    /\ UNCHANGED <<flags, sideVars, jobVars, stunVars, epoch, exitStatus, certVars, serve, serveErr, tick, tickC,
                   inShutdown, netVars, envVars, hist>>

\* (variant: the ticker task is started in every certificate mode)
StartsTickerAlways(mode) == TRUE

\* if *certMode == "letsencrypt"
StartsTicker(mode) == mode = "letsencrypt"

\* if *certMode == "letsencrypt" { ticker := time.NewTicker(time.Hour * 6); ... }
SpawnTicker ==
    /\ pc = "spawnTicker"
    /\ pc' = "wait"
    /\ tick' = IF StartsTicker(flags.certMode) THEN "running" ELSE "none"
    /\ tickC' = 0
    /\ UNCHANGED <<flags, sideVars, jobVars, stunVars, epoch, exitStatus, certVars, serve, serveErr, sig, sigc,
                   notified, everNotified, inShutdown, netVars, envVars, hist>>

\* (variant: the wait does not join the serve task)
GroupDoneNoServe == sig = "done" /\ tick \in {"none", "done"}

\* errgroup.Group.Wait returns when every task of the group has returned
GroupDone == serve = "done" /\ sig = "done" /\ tick \in {"none", "done"}

\* (variant: every error of the group is fatal)
FatalAnyError(e) == e # "nil"

\* if err != nil && err != http.ErrServerClosed { log.Fatalf }
IsFatalServeErr(e) == e # "nil" /\ e # "ErrServerClosed"

\* err = errorGroup.Wait(); fatal, or the end of the loop body and the next
\* iteration, whose variables are fresh
Wait ==
    /\ pc = "wait"
    /\ GroupDone
    /\ IF IsFatalServeErr(serveErr) THEN Fatal("exit1")
       ELSE /\ pc' = "head"
            /\ epoch' = epoch + 1
            /\ err' = "nil"
            /\ provider' = "nil"
            /\ cache' = <<>>
            /\ tlsCert' = <<>>
            /\ certExpires' = 0
            /\ serve' = "none"
            /\ serveErr' = "nil"
            /\ sig' = "none"
            /\ tick' = "none"
            /\ tickC' = 0
            /\ sigc' = <<>>
            /\ notified' = FALSE
            /\ inShutdown' = FALSE
            /\ hist' = [hist EXCEPT !.certStep = "pending", !.termDelivered = FALSE,
                                     !.usr2Delivered = FALSE, !.normalRestart = FALSE]
            /\ closes' = NoCloses
            /\ UNCHANGED <<flags, sideVars, cronjobs, nodeKey, stunVars, exitStatus, stored, iptRule,
                           everNotified, netVars, envVars>>

\* ------------------------------------------------------- the serve task
ServeEnds(e) ==
    /\ serve' = "done"
    /\ serveErr' = e
    /\ hist' = [hist EXCEPT !.badServe = @ \/ (IsFatalServeErr(e) /\ sigc = <<>>)]

\* ln, err := net.Listen("tcp", addr); if err != nil { return err }
ServeListen ==
    /\ serve = "starting"
    /\ \/ /\ serve' = "bound"
          /\ lnBound' = lnBound \cup {epoch}
          /\ UNCHANGED <<serveErr, hist>>
       \/ /\ ServeEnds("bind")
          /\ UNCHANGED lnBound
    /\ UNCHANGED <<flags, sideVars, jobVars, stunVars, mainVars, certVars, sig, tick, tickC, sigc, notified,
                   everNotified, inShutdown, tracked, relay, envVars>>

\* defer rln.Close(); return srv.ServeTLS(rln, "", ""): a server that is
\* shutting down returns http.ErrServerClosed at once
ServeTLS ==
    /\ serve = "bound"
    /\ IF inShutdown
       THEN /\ ServeEnds("ErrServerClosed")
            /\ lnBound' = lnBound \ {epoch}
       ELSE /\ serve' = "serving"
            /\ UNCHANGED <<serveErr, hist, lnBound>>
    /\ UNCHANGED <<flags, sideVars, jobVars, stunVars, mainVars, certVars, sig, tick, tickC, sigc, notified,
                   everNotified, inShutdown, tracked, relay, envVars>>

\* rateLimitedListener.Accept inside the accept loop of srv.ServeTLS: an
\* admitted connection is tracked by the server; when the limiter refuses,
\* Accept closes the connection and returns errLimitedConn, which is no
\* temporary error, so ServeTLS returns it and rln.Close runs
ServeAccept ==
    /\ serve = "serving"
    /\ ~inShutdown
    /\ \/ /\ tracked + relay < MaxConns
          /\ tracked' = tracked + 1
          /\ UNCHANGED <<serve, serveErr, hist, lnBound>>
       \/ /\ ServeEnds("errLimitedConn")
          /\ lnBound' = lnBound \ {epoch}
          /\ UNCHANGED tracked
    /\ UNCHANGED <<flags, sideVars, jobVars, stunVars, mainVars, certVars, sig, tick, tickC, sigc, notified,
                   everNotified, inShutdown, relay, envVars>>

\* the underlying Accept fails while the server is not shutting down
ServeAcceptError ==
    /\ serve = "serving"
    /\ ~inShutdown
    /\ ServeEnds("accept")
    /\ lnBound' = lnBound \ {epoch}
    /\ UNCHANGED <<flags, sideVars, jobVars, stunVars, mainVars, certVars, sig, tick, tickC, sigc, notified,
                   everNotified, inShutdown, tracked, relay, envVars>>

\* Accept fails on the listener httpsrv.Close() closed: http.ErrServerClosed
ServeClosed ==
    /\ serve = "serving"
    /\ inShutdown
    /\ ServeEnds("ErrServerClosed")
    /\ UNCHANGED <<flags, sideVars, jobVars, stunVars, mainVars, certVars, sig, tick, tickC, sigc, notified,
                   everNotified, inShutdown, netVars, envVars>>

\* the /derp handler hijacks the connection and hands it to the relay engine
Hijack ==
    /\ tracked > 0
    /\ tracked' = tracked - 1
    /\ relay' = relay + 1
    /\ UNCHANGED <<flags, sideVars, jobVars, stunVars, mainVars, certVars, taskVars, lnBound, envVars, hist>>

\* ------------------------------------------------ the serveSTUN goroutine
\* pc, err := net.ListenPacket("udp", ...); if err != nil { log.Fatalf };
\* then the goroutine stays in serverSTUNListener
StunListen ==
    /\ stun = "starting"
    /\ \/ /\ stun' = "bound"
          /\ UNCHANGED <<flags, sideVars, jobVars, runSTUN, mainVars, certVars, taskVars, netVars, envVars, hist>>
       \/ Fatal("exit1")

\* ------------------------------------------------------ the signal task
\* (variant: Close also closes the hijacked connections)
RelayAfterCloseAll(r) == 0

\* httpsrv.Close(): http.Server.Close closes the listeners and the
\* connections the server tracks; it does not know the hijacked ones
RelayAfterClose(r) == r

\* (variant: the SIGUSR2 case has no return and the loop of sigFunc goes on)
SigAfterRestartLoops == "waiting"

\* sigFunc, case syscall.SIGUSR2: ...; return
SigAfterRestart == "done"

\* sigFunc, case syscall.SIGUSR2: close(shutdownChan); httpsrv.Close(); return
SigRestart ==
    /\ sig = "waiting"
    /\ sigc = <<"SIGUSR2">>
    /\ sigc' = <<>>
    /\ sig' = SigAfterRestart
    /\ closes' = [shutdownChan |-> closes.shutdownChan + 1, httpsrv |-> closes.httpsrv + 1]
    /\ inShutdown' = TRUE
    /\ lnBound' = IF serve = "serving" THEN lnBound \ {epoch} ELSE lnBound
    /\ tracked' = 0
    /\ relay' = RelayAfterClose(relay)
    /\ hist' = [hist EXCEPT !.normalRestart = (serve = "serving")]
    /\ UNCHANGED <<flags, sideVars, cronjobs, nodeKey, stunVars, mainVars, certVars, serve, serveErr, tick, tickC, notified,
                   everNotified, envVars>>

\* sigFunc, default: close(shutdownChan); httpsrv.Close(); os.Exit(0)
SigTerminate ==
    /\ sig = "waiting"
    /\ sigc # <<>>
    /\ sigc[1] # "SIGUSR2"
    /\ Fatal("exit0")

\* ------------------------------------------------------ the ticker task
\* (variant: the comparison lets the day of the threshold through as well)
RenewalDueInclusive(exp, t) == exp - t <= RenewThreshold

\* certExpires.Sub(time.Now()) < time.Hour*24*7
RenewalDue(exp, t) == exp - t < RenewThreshold

\* for range ticker.C { if certExpires.Sub(time.Now()) < time.Hour*24*7 {
TickerFire ==
    /\ tick = "running"
    /\ tickC = 1
    /\ tickC' = 0
    /\ tick' = IF RenewalDue(certExpires, now) THEN "sending" ELSE "running"
    /\ UNCHANGED <<flags, sideVars, jobVars, stunVars, mainVars, certVars, serve, serveErr, sig, sigc, notified,
                   everNotified, inShutdown, netVars, envVars, hist>>

\* sigc <- syscall.SIGUSR2; return nil  (the send blocks while sigc is full)
TickerSend ==
    /\ tick = "sending"
    /\ sigc = <<>>
    /\ sigc' = <<"SIGUSR2">>
    /\ tick' = "done"
    /\ UNCHANGED <<flags, sideVars, jobVars, stunVars, mainVars, certVars, serve, serveErr, sig, tickC, notified,
                   everNotified, inShutdown, netVars, envVars, hist>>

\* ------------------------------------------------------ the environment
\* One ticker period (6 hours) passes. The setup of an epoch takes less than
\* a period, so the clock moves while main waits on the group; the ticker
\* task takes a tick from ticker.C within the period, so no tick is dropped;
\* the serveSTUN goroutine, able to run since main started it, has made its
\* net.ListenPacket call.
Tick ==
    /\ pc = "wait"
    /\ now < MaxTime
    /\ tickC = 0
    /\ stun # "starting"
    /\ now' = now + 1
    /\ tickC' = IF tick = "running" THEN 1 ELSE 0
    /\ UNCHANGED <<flags, sideVars, jobVars, stunVars, mainVars, certVars, serve, serveErr, sig, tick, sigc, notified,
                   everNotified, inShutdown, netVars, hist>>

\* An operator sends SIGINT, SIGTERM or SIGQUIT. Before the first
\* signal.Notify the Go runtime ends the process. After it, the runtime
\* offers the signal to every channel ever registered without blocking: the
\* channel of this epoch takes it when it is registered and empty, the
\* channels of earlier epochs have no reader.
TermSignal(s) ==
    /\ exitStatus = "running"
    /\ UNCHANGED now
    /\ IF ~everNotified
       THEN /\ Exit("killed")
            /\ UNCHANGED <<flags, sideVars, epoch, stored, iptRule, hist>>
       ELSE /\ sigc' = IF notified /\ sigc = <<>> THEN <<s>> ELSE sigc
            /\ hist' = [hist EXCEPT !.termDelivered = TRUE]
            /\ UNCHANGED <<flags, sideVars, jobVars, stunVars, mainVars, certVars, serve, serveErr, sig, tick, tickC,
                           notified, everNotified, inShutdown, netVars>>

\* An operator sends SIGUSR2. It is not among the signals given to
\* signal.Notify: the Go runtime catches it and takes no action.
Usr2Signal ==
    /\ exitStatus = "running"
    /\ hist' = [hist EXCEPT !.usr2Delivered = @ \/ notified]
    /\ UNCHANGED <<flags, sideVars, jobVars, stunVars, mainVars, certVars, taskVars, netVars, now>>

\* ---------------------------------------------------- the specification
MainStep ==
    \/ EpochHead \/ LoadConfig \/ Bootstrap \/ Mesh \/ StartSTUN \/ CertSwitch
    \/ FindZone \/ AppendRecords \/ IptAdd \/ ManageSync \/ IptDel \/ CertCheck
    \/ ManualLoad \/ Wrap \/ SpawnServe \/ SpawnSig \/ SpawnTicker \/ Wait

ServeStep == ServeListen \/ ServeTLS \/ ServeAccept \/ ServeAcceptError \/ ServeClosed

SigStep == SigRestart \/ SigTerminate

TickerStep == TickerFire \/ TickerSend

Next ==
    \/ EpochHead \/ LoadConfig \/ Bootstrap \/ Mesh \/ StartSTUN \/ CertSwitch
    \/ FindZone \/ AppendRecords \/ IptAdd \/ ManageSync \/ IptDel \/ CertCheck
    \/ ManualLoad \/ Wrap \/ SpawnServe \/ SpawnSig \/ SpawnTicker \/ Wait
    \/ ServeListen \/ ServeTLS \/ ServeAccept \/ ServeAcceptError \/ ServeClosed
    \/ Hijack
    \/ StunListen
    \/ SigRestart \/ SigTerminate
    \/ TickerFire \/ TickerSend
    \/ Tick
    \/ \E s \in SentSignals : TermSignal(s)
    \/ Usr2Signal

Spec == Init /\ [][Next]_vars

\* The Go scheduler runs every goroutine that can make a step: main, the
\* serve task, the signal task and the ticker task each keep moving while
\* they are not blocked. Signals, connections and the clock are the
\* environment's and carry no fairness.
FairSpec ==
    /\ Spec
    /\ WF_vars(MainStep)
    /\ WF_vars(ServeListen \/ ServeTLS \/ ServeClosed)
    /\ WF_vars(SigStep)
    /\ WF_vars(StunListen)
    /\ WF_vars(TickerStep)

\* ------------------------------------------- the rate limited listener
Min(a, b) == IF a < b THEN a ELSE b

\* l.lim.Allow(): a limiter of rate Inf allows every event, any other one
\* allows an event when the bucket holds a token
Allow == limit = "inf" \/ tokens >= 1

\* the bucket after Allow has returned true
TokensAfterAllow == IF limit = "inf" THEN tokens ELSE tokens - 1

\* (variant: a rejection is not counted)
CountRejectNever(n) == n

\* l.numRejects.Add(1)
CountReject(n) == n + 1

\* newRateLimitedListener(ln, rate.Limit(*acceptConnLimit), *acceptConnBurst):
\* the counters are zero and the bucket is full
LimInit ==
    /\ MainInit(DefaultFlags)
    /\ ProbeIdle
    /\ TlsIdle
    /\ WaitIdle
    /\ limit \in {"inf", "finite"}
    /\ burst \in 0..MaxBurst
    /\ tokens = burst
    /\ numAccepts = 0
    /\ numRejects = 0
    /\ backlog = 0
    /\ arrived = 0
    /\ attempts = 0
    /\ accLoop = "calling"
    /\ accRet = "none"
    /\ elapsed = FALSE

\* a client connects: the kernel queues the connection of a listening socket
Arrive ==
    /\ accLoop \in {"calling", "handling"}
    /\ arrived < MaxAttempts
    /\ arrived' = arrived + 1
    /\ backlog' = backlog + 1
    /\ UNCHANGED <<progVars, probeVars, tlsVars, waitVars, limit, burst, tokens, numAccepts, numRejects, attempts,
                   accLoop, accRet, elapsed>>

\* rateLimitedListener.Accept when l.Listener.Accept yields a connection
AcceptConn ==
    /\ accLoop = "calling"
    /\ backlog > 0
    /\ backlog' = backlog - 1
    /\ attempts' = attempts + 1
    /\ accLoop' = "handling"
    /\ IF Allow
       THEN /\ numAccepts' = numAccepts + 1
            /\ tokens' = TokensAfterAllow
            /\ accRet' = "conn"
            /\ UNCHANGED numRejects
       ELSE /\ numRejects' = CountReject(numRejects)
            /\ accRet' = "errLimitedConn"
            /\ UNCHANGED <<numAccepts, tokens>>
    /\ UNCHANGED <<progVars, probeVars, tlsVars, waitVars, limit, burst, arrived, elapsed>>

\* (variant: Accept asks the limiter before it calls the underlying accept)
TokensAfterAcceptErrorTaken == IF limit = "finite" /\ tokens >= 1 THEN tokens - 1 ELSE tokens

\* cn, err := l.Listener.Accept(); if err != nil { return nil, err }: the
\* limiter has not been asked
TokensAfterAcceptError == tokens

\* rateLimitedListener.Accept when l.Listener.Accept fails, with an error
\* that is temporary or not
AcceptFails(e) ==
    /\ accLoop = "calling"
    /\ accRet' = e
    /\ accLoop' = "handling"
    /\ tokens' = TokensAfterAcceptError
    /\ UNCHANGED <<progVars, probeVars, tlsVars, waitVars, limit, burst, numAccepts, numRejects, backlog,
                   arrived, attempts, elapsed>>

\* srv.ServeTLS(rln, "", ""): a connection is handed to a goroutine and a
\* temporary net.Error is retried; any other error ends the loop, and the
\* deferred rln.Close() drops what the kernel still has queued
ServeHandles ==
    /\ accLoop = "handling"
    /\ IF accRet \in {"conn", "errTemporary"}
       THEN /\ accLoop' = "calling"
            /\ UNCHANGED backlog
       ELSE /\ accLoop' = "returned"
            /\ backlog' = 0
    /\ UNCHANGED <<progVars, probeVars, tlsVars, waitVars, limit, burst, tokens, numAccepts, numRejects, arrived,
                   attempts, accRet, elapsed>>

\* the time of one token passes: the bucket gains a token up to its burst
LimTick ==
    /\ accLoop \in {"calling", "handling"}
    /\ limit = "finite"
    /\ tokens' = Min(burst, tokens + 1)
    /\ elapsed' = TRUE
    /\ UNCHANGED <<progVars, probeVars, tlsVars, waitVars, limit, burst, numAccepts, numRejects, backlog, arrived,
                   attempts, accLoop, accRet>>

LimNext ==
    \/ Arrive
    \/ AcceptConn
    \/ \E e \in {"errTemporary", "errAccept"} : AcceptFails(e)
    \/ ServeHandles
    \/ LimTick

LimSpec == LimInit /\ [][LimNext]_vars

\* ------------------------------------------------- the probe responder
\* the transaction ids of the requests considered
TxIDs == {"t1", "t2"}

\* the datagrams read: without the magic prefix, with it but no binding
\* request, and binding requests
Packets ==
    {[magic |-> FALSE, binding |-> FALSE, txid |-> "none"],
     [magic |-> TRUE, binding |-> FALSE, txid |-> "none"]}
    \cup {[magic |-> TRUE, binding |-> TRUE, txid |-> t] : t \in TxIDs}

\* the sender addresses ReadFromUDP reports: an IPv4 address in 4 bytes, an
\* IPv4 address in the 16 byte IPv4-mapped form, an IPv6 address
Senders ==
    {[ip |-> [len |-> 4, mapped |-> FALSE, host |-> "198.51.100.7"], port |-> 40000],
     [ip |-> [len |-> 16, mapped |-> TRUE, host |-> "198.51.100.7"], port |-> 65535],
     [ip |-> [len |-> 16, mapped |-> FALSE, host |-> "2001:db8::9"], port |-> 3478]}

\* stun.Is(pkt)
StunIs(pkt) == pkt.magic

\* stun.ParseBindingRequest(pkt): the transaction id, or an error
ParseBindingRequest(pkt) ==
    IF pkt.magic /\ pkt.binding THEN [err |-> FALSE, txid |-> pkt.txid]
    ELSE [err |-> TRUE, txid |-> "none"]

\* ua.IP.To4() != nil
IsTo4(ip) == ip.len = 4 \/ ip.mapped

\* netip.AddrFromSlice(ua.IP): the address of the 4 or 16 bytes, as they are
AddrFromSlice(ip) == ip

\* uint16(ua.Port)
Uint16(n) == n % 65536

\* (variant: the response reflects the port 0)
StunResponseNoPort(txid, ua) ==
    [txid |-> txid, ip |-> AddrFromSlice(ua.ip), port |-> 0]

\* stun.Response(txid, netip.AddrPortFrom(addr, uint16(ua.Port)))
StunResponse(txid, ua) ==
    [txid |-> txid, ip |-> AddrFromSlice(ua.ip), port |-> Uint16(ua.port)]

\* serveSTUN calls serverSTUNListener(context.Background(), pc); the function
\* is looked at for a context that can be cancelled as well
StunInit ==
    /\ MainInit(DefaultFlags)
    /\ LimIdle
    /\ TlsIdle
    /\ WaitIdle
    /\ stunLoop = "read"
    /\ cancellable \in BOOLEAN
    /\ ctxDone = FALSE
    /\ sockClosed = FALSE
    /\ reads = 0
    /\ slept = 0
    /\ last = NoRead
    /\ stunReadError = 0
    /\ stunNotSTUN = 0
    /\ stunWriteError = 0
    /\ stunSuccess = 0
    /\ stunIPv4 = 0
    /\ stunIPv6 = 0

\* (variant: a failed write is counted as a success as well)
SuccessAfterWriteAlways(ok) == stunSuccess + 1

\* if err != nil { stunWriteError.Add(1) } else { stunSuccess.Add(1) }
SuccessAfterWrite(ok) == IF ok THEN stunSuccess + 1 ELSE stunSuccess

\* (variant: a datagram that is no request is counted as a read error too)
ReadErrorAfterNotStunBoth == stunReadError + 1

\* stunNotSTUN.Add(1); continue: the read-error counter stays
ReadErrorAfterNotStun == stunReadError

\* (variant: the read-error counter is not incremented)
ReadErrorAfterSleepSame == stunReadError

\* stunReadError.Add(1) after the sleep
ReadErrorAfterSleep == stunReadError + 1

\* (variant: the else is missing and every request is counted as IPv6)
IPv6AfterRequestAlways(is4) == stunIPv6 + 1

\* if ua.IP.To4() != nil { stunIPv4.Add(1) } else { stunIPv6.Add(1) }
IPv6AfterRequest(is4) == IF is4 THEN stunIPv6 ELSE stunIPv6 + 1

\* one turn of the loop in which pc.ReadFromUDP returns the datagram pkt sent
\* by ua; wok tells whether pc.WriteTo succeeds
StunDatagram(pkt, ua, wok) ==
    /\ stunLoop = "read"
    /\ ~sockClosed
    /\ reads < MaxReads
    /\ reads' = reads + 1
    /\ IF ~StunIs(pkt) \/ ParseBindingRequest(pkt).err
       THEN /\ stunNotSTUN' = stunNotSTUN + 1
            /\ stunReadError' = ReadErrorAfterNotStun
            /\ last' = [kind |-> "datagram", pkt |-> pkt, from |-> ua, writes |-> <<>>,
                        wok |-> FALSE]
            /\ UNCHANGED <<stunWriteError, stunSuccess, stunIPv4, stunIPv6>>
       ELSE /\ stunIPv4' = IF IsTo4(ua.ip) THEN stunIPv4 + 1 ELSE stunIPv4
            /\ stunIPv6' = IPv6AfterRequest(IsTo4(ua.ip))
            /\ last' = [kind |-> "datagram", pkt |-> pkt, from |-> ua,
                        writes |-> <<[to |-> ua,
                                      res |-> StunResponse(ParseBindingRequest(pkt).txid, ua)]>>,
                        wok |-> wok]
            /\ stunWriteError' = IF wok THEN stunWriteError ELSE stunWriteError + 1
            /\ stunSuccess' = SuccessAfterWrite(wok)
            /\ UNCHANGED <<stunNotSTUN, stunReadError>>
    /\ UNCHANGED <<progVars, limVars, tlsVars, waitVars, stunLoop, cancellable, ctxDone, sockClosed, slept>>

\* pc.ReadFromUDP returns an error: a transient one, or the error of a closed
\* socket. if ctx.Err() != nil { return }; otherwise log and time.Sleep
StunReadError ==
    /\ stunLoop = "read"
    /\ reads < MaxReads
    /\ reads' = reads + 1
    /\ last' = [kind |-> "readError", closed |-> sockClosed, cancelled |-> ctxDone]
    /\ stunLoop' = IF ctxDone THEN "returned" ELSE "sleeping"
    /\ UNCHANGED <<progVars, limVars, tlsVars, waitVars, cancellable, ctxDone, sockClosed, slept, stunCounters>>

\* time.Sleep(time.Second) is over; stunReadError.Add(1); continue
StunWake ==
    /\ stunLoop = "sleeping"
    /\ slept' = slept + ReadBackoff
    /\ stunReadError' = ReadErrorAfterSleep
    /\ stunLoop' = "read"
    /\ UNCHANGED <<progVars, limVars, tlsVars, waitVars, cancellable, ctxDone, sockClosed, reads, last,
                   stunNotSTUN, stunWriteError, stunSuccess, stunIPv4, stunIPv6>>

\* the owner of the context cancels it
CtxCancel ==
    /\ stunLoop \in {"read", "sleeping"}
    /\ cancellable
    /\ ~ctxDone
    /\ ctxDone' = TRUE
    /\ UNCHANGED <<progVars, limVars, tlsVars, waitVars, stunLoop, cancellable, sockClosed, reads, slept, last,
                   stunCounters>>

\* the owner of the socket closes it
OwnerCloses ==
    /\ stunLoop \in {"read", "sleeping"}
    /\ ~sockClosed
    /\ sockClosed' = TRUE
    /\ UNCHANGED <<progVars, limVars, tlsVars, waitVars, stunLoop, cancellable, ctxDone, reads, slept, last,
                   stunCounters>>

StunNext ==
    \/ \E pkt \in Packets, ua \in Senders, wok \in BOOLEAN : StunDatagram(pkt, ua, wok)
    \/ StunReadError
    \/ StunWake
    \/ CtxCancel
    \/ OwnerCloses

StunSpec == StunInit /\ [][StunNext]_vars

\* ------------------------------------------- the GetCertificate hook
\* getCert := httpsrv.TLSConfig.GetCertificate: the certificate source of the
\* epoch holds one certificate and hands the TLS layer a pointer to it, or
\* to a copy of it made for the call
TlsInit ==
    /\ MainInit(DefaultFlags)
    /\ LimIdle
    /\ ProbeIdle
    /\ WaitIdle
    /\ srcCopies \in BOOLEAN
    /\ srcChain = IssuedChain
    /\ hs = [i \in Handshakes |-> NoHandshake]

\* cert.Certificate of the *tls.Certificate handshake i holds
CertOf(i) == IF srcCopies THEN hs[i].own ELSE srcChain

\* cert, err := getCert(hi); if err != nil { return nil, err }
GetCert(i, failed) ==
    /\ hs[i].pc = "idle"
    /\ hs' = [hs EXCEPT ![i] =
                IF failed THEN [@ EXCEPT !.pc = "error"]
                ELSE [@ EXCEPT !.pc = "got", !.own = IF srcCopies THEN srcChain ELSE <<>>]]
    /\ UNCHANGED <<progVars, limVars, probeVars, waitVars, srcCopies, srcChain>>

\* append(cert.Certificate, s.MetaCert()): the read of cert.Certificate
AppendRead(i) ==
    /\ hs[i].pc = "got"
    /\ hs' = [hs EXCEPT ![i] = [@ EXCEPT !.pc = "read", !.read = CertOf(i)]]
    /\ UNCHANGED <<progVars, limVars, probeVars, waitVars, srcCopies, srcChain>>

\* cert.Certificate = append(...): the write through the pointer getCert
\* returned; return cert, nil
AppendWrite(i) ==
    /\ hs[i].pc = "read"
    /\ IF srcCopies
       THEN /\ hs' = [hs EXCEPT ![i] = [@ EXCEPT !.pc = "returned",
                                                 !.own = Append(hs[i].read, MetaCert)]]
            /\ UNCHANGED srcChain
       ELSE /\ hs' = [hs EXCEPT ![i] = [@ EXCEPT !.pc = "returned"]]
            /\ srcChain' = Append(hs[i].read, MetaCert)
    /\ UNCHANGED <<progVars, limVars, probeVars, waitVars, srcCopies>>

\* the TLS layer sends the chain of the certificate the hook returned
SendChain(i) ==
    /\ hs[i].pc = "returned"
    /\ hs' = [hs EXCEPT ![i] = [@ EXCEPT !.pc = "sent", !.sent = CertOf(i)]]
    /\ UNCHANGED <<progVars, limVars, probeVars, waitVars, srcCopies, srcChain>>

TlsNext ==
    \/ \E i \in Handshakes, failed \in BOOLEAN : GetCert(i, failed)
    \/ \E i \in Handshakes : AppendRead(i)
    \/ \E i \in Handshakes : AppendWrite(i)
    \/ \E i \in Handshakes : SendChain(i)

TlsSpec == TlsInit /\ [][TlsNext]_vars

\* ------------------------- the wait loops of the service (un)installer
\* isServiceInstaller after InstallSystemDaemonWindows(), with its ticker and
\* its timeout channel made before the loop, the service not yet visible;
\* isServiceUninstaller after UninstallSystemDaemonWindows(), the service
\* still installed
WaitInit ==
    /\ MainInit(DefaultFlags)
    /\ LimIdle
    /\ ProbeIdle
    /\ TlsIdle
    /\ waitKind \in {"installer", "uninstaller"}
    /\ waitPc = "test"
    /\ present = (waitKind = "uninstaller")
    /\ sinceTick = 0
    /\ afterAge = 0
    /\ waited = 0

\* the period of the tick channel and the delay of the timeout channel
TickOf(kind) == IF kind = "installer" THEN InstallTick ELSE UninstallTick
TimeoutOf(kind) == IF kind = "installer" THEN InstallTimeout ELSE UninstallTimeout

\* for !isServiceInstalled() (installer), for isServiceInstalled()
\* (uninstaller)
LoopCondition == IF waitKind = "installer" THEN ~present ELSE present

\* the loop condition is evaluated and the select statement is entered; the
\* uninstaller's select evaluates time.Tick(time.Second) and
\* time.After(time.Second * 20) on entry, which makes two new channels
WaitTest ==
    /\ waitPc = "test"
    /\ IF LoopCondition
       THEN /\ waitPc' = "select"
            /\ sinceTick' = IF waitKind = "uninstaller" THEN 0 ELSE sinceTick
            /\ afterAge' = IF waitKind = "uninstaller" THEN 0 ELSE afterAge
       ELSE /\ waitPc' = "done"
            /\ UNCHANGED <<sinceTick, afterAge>>
    /\ UNCHANGED <<progVars, limVars, probeVars, tlsVars, waitKind, present, waited>>

\* case <-ticker.C: / case <-time.Tick(time.Second):
WaitTickCase ==
    /\ waitPc = "select"
    /\ sinceTick >= TickOf(waitKind)
    /\ waitPc' = "test"
    /\ sinceTick' = 0
    /\ UNCHANGED <<progVars, limVars, probeVars, tlsVars, waitKind, present, afterAge, waited>>

\* case <-after: / case <-time.After(time.Second * 20): log.Fatalf
WaitTimeoutCase ==
    /\ waitPc = "select"
    /\ afterAge >= TimeoutOf(waitKind)
    /\ waitPc' = "fatal"
    /\ UNCHANGED <<progVars, limVars, probeVars, tlsVars, waitKind, present, sinceTick, afterAge,
                   waited>>

\* a second passes while the select statement blocks: no case is ready
WaitSecond ==
    /\ waitPc = "select"
    /\ sinceTick < TickOf(waitKind)
    /\ afterAge < TimeoutOf(waitKind)
    /\ waited < MaxSeconds
    /\ sinceTick' = sinceTick + 1
    /\ afterAge' = afterAge + 1
    /\ waited' = waited + 1
    /\ UNCHANGED <<progVars, limVars, probeVars, tlsVars, waitKind, waitPc, present>>

\* the service manager completes the installation or the removal
ServiceChanges ==
    /\ waitPc \in {"test", "select"}
    /\ LoopCondition
    /\ present' = ~present
    /\ UNCHANGED <<progVars, limVars, probeVars, tlsVars, waitKind, waitPc, sinceTick, afterAge,
                   waited>>

WaitNext ==
    \/ WaitTest
    \/ WaitTickCase
    \/ WaitTimeoutCase
    \/ WaitSecond
    \/ ServiceChanges

WaitSpec == WaitInit /\ [][WaitNext]_vars

\* ------------------------------------------------------------ properties

\* C1: a termination signal (SIGINT, SIGTERM, SIGQUIT) delivered at any
\* moment after the first signal.Notify, the rebuild between two epochs
\* included, closes the listener and ends the process with status 0. Only
\* the default case of sigFunc does that, so the step that delivers the
\* signal must leave it in the channel a waiting signal task reads. (The
\* signal that finds the channel occupied by an earlier request is left
\* aside here.)
C1_TermSignalTaken ==
    [][(hist.termDelivered' /\ ~hist.termDelivered /\ sigc = <<>>)
          => /\ sig' = "waiting"
             /\ sigc' # <<>>
             /\ sigc'[1] \in NotifiedSignals]_vars

\* C2: when sigFunc handles a restart request while the serve task is
\* serving, the listener is closed, the serve task returns
\* http.ErrServerClosed, the wait returns without a fatal error and main
\* loops back to the head of the next epoch; the process does not exit on
\* the way.
C2_RestartLoopsBack ==
    [][/\ (hist.normalRestart' /\ ~hist.normalRestart)
            => (inShutdown' /\ epoch \notin lnBound' /\ exitStatus' = "running")
       /\ hist.normalRestart
            => /\ exitStatus' = "running"
               /\ epoch \notin lnBound'
               /\ (serve' = "done" => serveErr' = "ErrServerClosed")
               /\ (pc' # pc => pc' = "head" /\ epoch' = epoch + 1)]_vars

C2_Witness ==
    /\ hist.normalRestart
    /\ pc = "wait"
    /\ GroupDone
    /\ serveErr = "ErrServerClosed"

\* C3: at most one TLS listener is bound, and it is the listener of the
\* current epoch: the listener of epoch N is closed before epoch N+1 begins.
C3_OneListener ==
    /\ Cardinality(lnBound) <= 1
    /\ lnBound \subseteq {epoch}

C3_Witness == epoch >= 1 /\ lnBound = {epoch}

\* C4: a SIGUSR2 an operator sends to an epoch whose signal task waits on
\* an empty channel raises the restart request the ticker raises with
\* sigc <- SIGUSR2.
C4_OperatorRestart ==
    [][(hist.usr2Delivered' /\ ~hist.usr2Delivered /\ sig = "waiting" /\ sigc = <<>>)
          => sigc' = <<"SIGUSR2">>]_vars

\* C5: after the serve task of an epoch has ended with an error other than
\* http.ErrServerClosed while no signal was pending, the wait ends the
\* process with a non-zero status: from then on the process never exits with
\* status 0 and starts no further epoch.
C5_ServeErrorNeverExitsZero ==
    [][hist.badServe => (exitStatus' # "exit0" /\ epoch' = epoch)]_vars

\* A step of a rotation: the restart handler's httpsrv.Close(), or a step
\* taken while main rebuilds the stack of a later epoch.
RotationStep ==
    \/ inShutdown' /\ ~inShutdown
    \/ epoch >= 1 /\ pc \notin {"wait", "exited"}

C7_CertValidWhileBound ==
    lnBound # {} => (tlsCert # <<>> /\ tlsCert[1] > now)

\* C8: the listener of an epoch is bound only after the certificate step of
\* that epoch has completed.
C8_CertBeforeBind ==
    (serve # "none" \/ epoch \in lnBound)
        => (hist.certStep = "done" /\ tlsCert # <<>>)

C8_Witness == epoch \in lnBound /\ hist.certStep = "done" /\ serve = "serving"

\* C9: after magic.ManageSync has returned an error no serve task is
\* started and no TLS listener is bound.
C9_FailedSyncFatal ==
    hist.syncFailed => (serve = "none" /\ lnBound = {})

\* C10: with a -dns-provider name none of the adapters matches, neither the
\* zone discovery nor a record submission nor the issuance call is made.
C10_UnknownProviderStops ==
    (flags.certMode = "letsencrypt" /\ flags.dnsProvider \notin KnownProviders \cup {""})
        => (~hist.zoneQueried /\ ~hist.recordsSent /\ ~hist.syncCalled)

\* the positions of main before the tasks of an epoch are started
StartupSteps ==
    {"head", "loadConfig", "bootstrap", "mesh", "stun", "cert", "zone", "records",
     "iptAdd", "manageSync", "iptDel", "certCheck", "manual", "wrap"}

\* C11: when a fatal failure of the set-up of the first epoch (bad listen
\* address, failed bootstrap, failed zone discovery, failed issuance,
\* unloadable manual certificate) ends the process, no socket is bound at
\* that moment: neither the TLS listener nor the UDP socket of serveSTUN.
C11_NoSocketBeforeStartupFatal ==
    [][(epoch = 0 /\ pc \in StartupSteps /\ exitStatus = "running" /\ exitStatus' = "exit1")
          => (stun # "bound" /\ lnBound = {})]_vars

\* C12: when the underlying accept yields a connection and no token is
\* available, Accept counts the rejection, closes the connection and goes
\* back to the underlying accept: every return of Accept is an admitted
\* connection or an error of the underlying listener.
C12_AcceptReturnsConnOrListenerError ==
    accRet \in {"none", "conn", "errTemporary", "errAccept"}

\* the accept loop has nothing left to do
Quiescent == accLoop = "returned" \/ (accLoop = "calling" /\ backlog = 0)

\* C13: when a burst of N connection attempts, N greater than the burst of
\* the limiter, has arrived with no time elapsing against a full bucket and
\* the underlying listener has not failed, then once the accept loop has
\* nothing left to do exactly burst connections were accepted, the other
\* N - burst were rejected and closed, and none is left queued.
C13_BurstAcceptedExactly ==
    (limit = "finite" /\ burst >= 1 /\ ~elapsed /\ arrived > burst
        /\ accRet # "errAccept" /\ Quiescent)
        => (numAccepts = burst /\ numRejects = arrived - burst /\ backlog = 0)

\* C14: after any sequence of accept attempts the accepted counter plus the
\* rejected counter is the number of connections the underlying accept has
\* yielded, each of them counted in exactly one of the two counters.
C14_CountersSumToAttempts ==
    /\ numAccepts + numRejects = attempts
    /\ attempts = arrived - backlog \/ accLoop = "returned"

C14_Witness ==
    attempts = MaxBurst + 1 /\ numAccepts = MaxBurst /\ numRejects = 1 /\ limit = "finite"

\* C15: a connection the rate limiter rejects is absorbed: after the step in
\* which Accept rejects, the serve task of the epoch is still serving, its
\* listener is still bound and the process has not exited.
C15_RejectionAbsorbed ==
    [][(serveErr' = "errLimitedConn" /\ serveErr # "errLimitedConn")
          => (serve' = "serving" /\ epoch \in lnBound' /\ exitStatus' = "running")]_vars

\* the last return of ReadFromUDP gave a well-formed binding request
LastIsRequest == last.kind = "datagram" /\ last.pkt.magic /\ last.pkt.binding

\* the last return of ReadFromUDP gave a datagram that is no binding request
LastIsMalformed == last.kind = "datagram" /\ (~last.pkt.magic \/ ~last.pkt.binding)

\* C16: for a well-formed request with transaction id T received from the
\* address A = (IP, port) the responder makes exactly one send, addressed to
\* A, of a response that encodes T and A, and no other address.
C16_ReflectsSender ==
    LastIsRequest
        => /\ Len(last.writes) = 1
           /\ last.writes[1].to = last.from
           /\ last.writes[1].res.txid = last.pkt.txid
           /\ last.writes[1].res.ip = last.from.ip
           /\ last.writes[1].res.port = last.from.port

C16_Witness ==
    LastIsRequest /\ last.pkt.txid = "t2" /\ last.from.ip.mapped /\ last.wok

\* C17: for a malformed datagram (no magic prefix, or the prefix but no
\* binding request) the responder sends nothing, adds one to the not-a-probe
\* counter and to no other counter, keeps the socket open and stays in the
\* loop.
C17_MalformedCountedOnly ==
    [][(reads' = reads + 1 /\ LastIsMalformed')
          => /\ last'.writes = <<>>
             /\ stunNotSTUN' = stunNotSTUN + 1
             /\ UNCHANGED <<stunReadError, stunWriteError, stunSuccess, stunIPv4, stunIPv6>>
             /\ ~sockClosed'
             /\ stunLoop' = "read"]_vars

C17_Witness ==
    LastIsMalformed /\ last.pkt.magic /\ stunNotSTUN = 2 /\ stunLoop = "read"

\* C18: on a read error while the context is not cancelled the responder
\* sends nothing and does not leave the loop: it sleeps the backoff of one
\* second, adds one to the read-error counter and to no other counter, and
\* reads again.
C18_ReadErrorBackoff ==
    [][/\ (reads' = reads + 1 /\ last'.kind = "readError" /\ ~ctxDone)
            => (stunLoop' = "sleeping" /\ UNCHANGED stunCounters)
       /\ (stunLoop = "sleeping" /\ stunLoop' # "sleeping")
            => /\ stunLoop' = "read"
               /\ slept' = slept + ReadBackoff
               /\ stunReadError' = stunReadError + 1
               /\ UNCHANGED <<stunNotSTUN, stunWriteError, stunSuccess, stunIPv4, stunIPv6>>]_vars

C18_Witness ==
    /\ last.kind = "readError" /\ ~last.cancelled /\ ~last.closed
    /\ stunLoop = "read" /\ stunReadError = 1 /\ slept = ReadBackoff

\* C19: the read loop returns when the owner has closed the socket, or when
\* a read fails after the cancellation of the context, and in no other case;
\* the read that fails because the owner closed the socket ends the loop.
C19_LoopExitsOnClose ==
    [][/\ (stunLoop' = "returned" /\ stunLoop # "returned") => (sockClosed \/ ctxDone)
       /\ (reads' = reads + 1 /\ last'.kind = "readError" /\ sockClosed)
            => stunLoop' = "returned"]_vars

\* C20: when the send of the response fails the responder adds one to the
\* write-error counter and not to the success counter and stays in the loop;
\* when it succeeds it adds one to the success counter and not to the
\* write-error counter.
C20_WriteOutcomeCounted ==
    [][(reads' = reads + 1 /\ LastIsRequest')
          => /\ stunLoop' = "read"
             /\ IF last'.wok
                THEN stunSuccess' = stunSuccess + 1 /\ stunWriteError' = stunWriteError
                ELSE stunWriteError' = stunWriteError + 1 /\ stunSuccess' = stunSuccess]_vars

C20_Witness ==
    LastIsRequest /\ ~last.wok /\ stunWriteError = 1 /\ stunSuccess = 1

\* C21: in automatic mode the ticker task, at a firing, goes on to raise a
\* restart request if and only if the certificate has less than 7 days
\* left; it raises one request and returns; the signal task that takes the
\* request closes the listener of the epoch; an epoch ends only after such
\* a request, and when the next epoch begins no listener is bound.
C21_RenewalTickRestartsOnce ==
    [][/\ (tick = "running" /\ tickC = 1 /\ tickC' = 0 /\ exitStatus' = "running")
            => (tick' = "sending" <=> certExpires - now < RenewThreshold)
       /\ (tick = "running" /\ tickC = 1 /\ tickC' = 0 /\ exitStatus' = "running")
            => (tick' = "running" <=> certExpires - now >= RenewThreshold)
       /\ (sigc' = <<"SIGUSR2">> /\ sigc = <<>>) => (tick = "sending" /\ tick' = "done")
       /\ (tick = "done" /\ epoch' = epoch /\ exitStatus' = "running") => tick' = "done"
       /\ (sig = "waiting" /\ sigc = <<"SIGUSR2">> /\ sigc' = <<>> /\ exitStatus' = "running")
            => (inShutdown' /\ (serve = "serving" => epoch \notin lnBound'))
       /\ (epoch' = epoch + 1)
            => (flags.certMode = "letsencrypt" /\ tick = "done" /\ lnBound' = {})]_vars

C21_Witness ==
    /\ flags.certMode = "letsencrypt"
    /\ epoch = 1
    /\ now = 1
    /\ serve = "serving"
    /\ epoch \in lnBound
    /\ tick = "running"

\* C22: in managed mode a restart cycle stops the housekeeping job of the
\* ending epoch before the next epoch starts its own: at most one
\* housekeeping job is running at any time.
C22_OneHousekeepingJob ==
    Cardinality(cronjobs) <= 1

\* C23: when main goes on to epoch N+1, everything started in epoch N has
\* stopped: the serve, signal and ticker tasks have returned, no goroutine
\* or job started by the set-up of epoch N is running, and the UDP socket
\* of serveSTUN is closed.
C23_EpochTasksStopped ==
    [][(epoch' = epoch + 1)
          => /\ serve = "done"
             /\ sig = "done"
             /\ tick \in {"none", "done"}
             /\ stun' = "none"
             /\ cronjobs' = {}]_vars

\* one of the three tasks of the epoch has returned
TaskExited == serve = "done" \/ sig = "done" \/ tick = "done"

\* the signal task has returned or has a value to take from its channel
SigToldToStop == sig = "done" \/ sigc # <<>>

\* the serve task has returned, its server has been closed, or the signal
\* task is about to close it
ServeToldToStop == serve = "done" \/ inShutdown \/ (sig = "waiting" /\ sigc # <<>>)

\* the ticker task has returned (or was never started), or the signal task
\* is about to end the process
TickerToldToStop ==
    tick \in {"none", "done"} \/ (sig = "waiting" /\ sigc # <<>> /\ sigc[1] # "SIGUSR2")

\* C24: the three tasks of an epoch share one cancellation scope: while
\* main waits on the group, once one of the tasks has returned each of the
\* other two has returned or has been told to stop, so the wait does not
\* block for ever.
C24_TasksShareCancellation ==
    (pc = "wait" /\ TaskExited)
        => (SigToldToStop /\ ServeToldToStop /\ TickerToldToStop)

\* C25: in manual certificate mode there is no automatic renewal: no ticker
\* task is started, no restart request is raised, the signal task does not
\* return and the process stays in its first epoch until it exits.
C25_ManualNeverRestarts ==
    flags.certMode = "manual"
        => /\ tick = "none"
           /\ tickC = 0
           /\ (sigc = <<>> \/ sigc[1] # "SIGUSR2")
           /\ sig # "done"
           /\ epoch = 0

C25_Witness ==
    /\ flags.certMode = "manual"
    /\ pc = "wait"
    /\ serve = "serving"
    /\ sig = "waiting"
    /\ now = MaxTime

\* C26: the chain sent in a TLS handshake, after any number of earlier
\* handshakes and in any interleaving of handshakes, is the chain the
\* certificate source was given followed by exactly one metadata
\* certificate; when the source returns an error nothing is appended.
C26_ChainPlusOneMetaCert ==
    /\ \A i \in Handshakes :
          hs[i].pc = "sent" => hs[i].sent = Append(IssuedChain, MetaCert)
    /\ (\A i \in Handshakes : hs[i].pc \in {"idle", "error"})
          => srcChain \in {<<>>, IssuedChain}

\* C27: the identity of the server is loaded once and is the same in every
\* epoch, in every run mode: the key a later epoch hands to derp.NewServer
\* is the key the epoch before it handed over.
C27_IdentityConstant ==
    [][(nodeKey # <<>> /\ nodeKey' # <<>>) => nodeKey' = nodeKey]_vars

\* C28: in the inline TLS challenge with a listen port other than 443 the
\* redirect rule is in place when the issuance call is made, and the step
\* after the call, succeeded or failed, is the removal of the rule; when
\* adding the rule fails the process exits and the call is not made; with
\* a DNS provider or with port 443 the redirect step is never executed.
C28_RedirectAroundIssuance ==
    [][/\ (pc = "iptAdd" /\ pc' # "iptAdd")
            => (exitStatus' # "running" \/ (pc' = "manageSync" /\ iptRule'))
       /\ (pc = "manageSync" /\ pc' # "manageSync" /\ AlpnRedirect)
            => (iptRule /\ (exitStatus' = "running" => pc' = "iptDel"))
       /\ (pc = "iptDel" /\ pc' # "iptDel")
            => (exitStatus' # "running" \/ (pc' = "certCheck" /\ ~iptRule'))
       /\ (pc' = "certCheck" /\ pc # "certCheck" /\ AlpnRedirect) => pc = "iptDel"
       /\ ~AlpnRedirect' => (pc' \notin {"iptAdd", "iptDel"} /\ ~iptRule')]_vars

C28_Witness ==
    /\ AlpnRedirect
    /\ hist.syncFailed
    /\ pc = "certCheck"
    /\ ~iptRule
    /\ epoch = 0

\* C29: Accept calls the underlying accept before it asks the limiter: a
\* call in which the underlying accept fails returns that error and leaves
\* the tokens and the two counters as they were; a token is taken and a
\* counter is changed only by a call of Accept to which the underlying
\* accept has yielded a connection.
C29_AcceptErrorLeavesLimiter ==
    [][/\ (accLoop = "calling" /\ accLoop' = "handling" /\ attempts' = attempts)
            => /\ accRet' \in {"errTemporary", "errAccept"}
               /\ UNCHANGED <<tokens, numAccepts, numRejects, backlog>>
       /\ (tokens' < tokens \/ numAccepts' # numAccepts \/ numRejects' # numRejects)
            => /\ accLoop = "calling"
               /\ accLoop' = "handling"
               /\ attempts' = attempts + 1
               /\ backlog' = backlog - 1]_vars

C29_Witness ==
    /\ limit = "finite"
    /\ burst = 2
    /\ accRet = "errTemporary"
    /\ accLoop = "handling"
    /\ numAccepts = 1
    /\ tokens = 1
    /\ backlog = 1

\* C30: in unmanaged mode the probe responder is started at most once per
\* process, in the first epoch: the step of main that starts it clears the
\* enable flag, no later epoch starts a second one or binds the UDP port
\* again, and the responder that is bound stays bound while the process
\* runs.
C30_ResponderStartedOnce ==
    [][~flags.managed
          => /\ (stun' = "starting" /\ stun # "starting")
                  => (stun = "none" /\ epoch = 0 /\ runSTUN)
             /\ (pc = "stun" /\ pc' = "cert") => ~runSTUN'
             /\ (stun = "bound" /\ exitStatus' = "running") => stun' = "bound"]_vars

C30_Witness ==
    /\ ~flags.managed
    /\ flags.stun
    /\ epoch = 1
    /\ pc = "cert"
    /\ stun = "bound"
    /\ ~runSTUN

\* C31: in every epoch sigFunc closes the shutdown channel at most once and
\* calls the Close of the HTTP server at most once, whatever signals and
\* restart requests arrive: the signal task takes one value from its
\* channel and then returns or ends the process, so a second value that is
\* pending is not handled in that epoch.
C31_OneCloseEachEpoch ==
    [][/\ closes'.shutdownChan <= 1
       /\ closes'.httpsrv <= 1
       /\ (sig = "waiting" /\ sigc # <<>> /\ sigc' = <<>>)
            => (sig' = "done" \/ exitStatus' # "running")
       /\ (sig = "done" /\ epoch' = epoch /\ exitStatus' = "running")
            => (sig' = "done" /\ closes' = closes)]_vars

C31_Witness ==
    /\ sig = "done"
    /\ closes = [shutdownChan |-> 1, httpsrv |-> 1]
    /\ sigc = <<"SIGTERM">>
    /\ pc = "wait"

\* the sum of the four disposition counters
Dispositions == stunReadError + stunNotSTUN + stunWriteError + stunSuccess

\* a step that ends a turn of the loop: a datagram has been dealt with, or
\* the backoff after a read error is over
TurnEnds ==
    \/ reads' = reads + 1 /\ last'.kind = "datagram"
    \/ stunLoop = "sleeping" /\ stunLoop' = "read"

\* C32: no counter of the responder is ever decremented; every turn of the
\* loop that ends adds one to exactly one of the four disposition counters
\* and no other step changes them; the two address-family counters
\* together equal write_error + success.
C32_CountersConsistent ==
    [][/\ stunReadError' >= stunReadError
       /\ stunNotSTUN' >= stunNotSTUN
       /\ stunWriteError' >= stunWriteError
       /\ stunSuccess' >= stunSuccess
       /\ stunIPv4' >= stunIPv4
       /\ stunIPv6' >= stunIPv6
       /\ Dispositions' = Dispositions + (IF TurnEnds THEN 1 ELSE 0)
       /\ stunIPv4' + stunIPv6' = stunWriteError' + stunSuccess']_vars

C32_Witness ==
    /\ reads = 3
    /\ stunIPv4 = 1
    /\ stunIPv6 = 1
    /\ stunReadError = 1
    /\ stunWriteError = 1
    /\ stunSuccess = 1

\* C33: the wait loop of isServiceUninstaller terminates when the service
\* stays installed after the uninstall call: the timeout branch is taken 20
\* seconds after the loop was entered, so the loop is not found waiting
\* later than that.
C33_UninstallWaitEnds ==
    (waitKind = "uninstaller" /\ waitPc \in {"test", "select"})
        => waited <= UninstallTimeout
====
